---- MODULE Spec2Model ----
(***************************************************************************)
(* Model of src/script.js (Heet-P/LogicProblemSolver): tokenizer, parser,   *)
(* canonical printer, evaluator, truth-table solver and the forward-        *)
(* chaining natural-deduction engine.                                       *)
(*                                                                          *)
(* A JavaScript string is a sequence of one-character strings, so that      *)
(* tokenize/parseFromString/exprToStr work on characters as the code does.  *)
(* An expression tree is a record with the fields of the JS object:         *)
(*   [type |-> "var", name], [type |-> "not", expr],                        *)
(*   [type |-> "and" | "or" | "imp", left, right].                          *)
(***************************************************************************)
EXTENDS Integers, Sequences, FiniteSets, TLC

(* ------------------------------ bounds -------------------------------- *)

\* most premise lines typed into the premises box
MaxPremises == 2

\* most operators in a tree handed to the printer/parser round trip
MaxOps == 2

(* --------------------------- program constants ------------------------ *)

\* while (changed && safety < 5000)
SafetyBound == 5000

(* ------------------------------ strings ------------------------------- *)

\* /\s/ : the whitespace characters that occur in the modelled inputs
IsSpace(c) == c \in {" ", "\t"}

StartsWith(s, pat) ==
    /\ Len(s) >= Len(pat)
    /\ SubSeq(s, 1, Len(pat)) = pat

\* String.prototype.replace(/pat/g, rep): leftmost, non-overlapping
RECURSIVE ReplaceAll(_, _, _)
ReplaceAll(s, pat, rep) ==
    IF s = <<>> THEN <<>>
    ELSE IF StartsWith(s, pat)
         THEN rep \o ReplaceAll(SubSeq(s, Len(pat) + 1, Len(s)), pat, rep)
         ELSE <<Head(s)>> \o ReplaceAll(Tail(s), pat, rep)

RECURSIVE TrimLeft(_)
TrimLeft(s) ==
    IF s # <<>> /\ IsSpace(Head(s)) THEN TrimLeft(Tail(s)) ELSE s

RECURSIVE TrimRight(_)
TrimRight(s) ==
    IF s # <<>> /\ IsSpace(s[Len(s)]) THEN TrimRight(SubSeq(s, 1, Len(s) - 1)) ELSE s

\* String.prototype.trim
Trim(s) == TrimRight(TrimLeft(s))

\* String.prototype.split(/\s+/): cur is the piece being read
RECURSIVE SplitSpaces(_, _)
SplitSpaces(s, cur) ==
    IF s = <<>> THEN <<cur>>
    ELSE IF IsSpace(Head(s))
         THEN <<cur>> \o SplitSpaces(TrimLeft(s), <<>>)
         ELSE SplitSpaces(Tail(s), Append(cur, Head(s)))

\* Array.prototype.filter(Boolean) on strings: drops the empty ones
RECURSIVE FilterNonEmpty(_)
FilterNonEmpty(ss) ==
    IF ss = <<>> THEN <<>>
    ELSE IF Head(ss) = <<>> THEN FilterNonEmpty(Tail(ss))
         ELSE <<Head(ss)>> \o FilterNonEmpty(Tail(ss))

(* ------------------------------ tokenizer ----------------------------- *)

tokenize(s0) ==
    LET s1 == ReplaceAll(s0, <<"-", ">">>, <<" ", "-", ">", " ">>)
        s2 == ReplaceAll(s1, <<"(">>, <<" ", "(", " ">>)
        s3 == ReplaceAll(s2, <<")">>, <<" ", ")", " ">>)
        s4 == ReplaceAll(s3, <<"~">>, <<" ", "~", " ">>)
        s5 == ReplaceAll(s4, <<"&">>, <<" ", "&", " ">>)
        s6 == ReplaceAll(s5, <<"|">>, <<" ", "|", " ">>)
    IN  FilterNonEmpty(SplitSpaces(Trim(s6), <<>>))

(* ------------------------------- parser ------------------------------- *)

Var(n) == [type |-> "var", name |-> n]
Not(x) == [type |-> "not", expr |-> x]
And(l, r) == [type |-> "and", left |-> l, right |-> r]
Or(l, r) == [type |-> "or", left |-> l, right |-> r]
Imp(l, r) == [type |-> "imp", left |-> l, right |-> r]

\* a parse function returns the node and the index i after it, or the
\* message of the Error it throws; i counts from 1 here, from 0 in the code
Parsed(n, i) == [ok |-> TRUE, node |-> n, i |-> i, err |-> ""]
Thrown(msg) == [ok |-> FALSE, node |-> Var(<<>>), i |-> 0, err |-> msg]

\* peek() === tok
PeekIs(tokens, i, tok) == i <= Len(tokens) /\ tokens[i] = tok

\* { type, left, right } of two parsed operands, unless the right one threw
Combine(type, l, r) ==
    IF ~r.ok THEN r
    ELSE Parsed([type |-> type, left |-> l.node, right |-> r.node], r.i)

RECURSIVE parseImplication(_, _)
RECURSIVE parseImplicationRest(_, _)
RECURSIVE parseOr(_, _)
RECURSIVE parseOrLoop(_, _)
RECURSIVE parseAnd(_, _)
RECURSIVE parseAndLoop(_, _)
RECURSIVE parseNot(_, _)
RECURSIVE parsePrimary(_, _)

\* if (!consume(')')) throw new Error('Missing closing )'); return expr
parsePrimaryClose(tokens, r) ==
    IF ~r.ok THEN r
    ELSE IF PeekIs(tokens, r.i, <<")">>)
         THEN Parsed(r.node, r.i + 1)
         ELSE Thrown("Missing closing )")

parsePrimary(tokens, i) ==
    IF PeekIs(tokens, i, <<"(">>)
    THEN parsePrimaryClose(tokens, parseImplication(tokens, i + 1))
    ELSE IF i > Len(tokens)
         THEN Thrown("Unexpected end of input")
         ELSE Parsed(Var(tokens[i]), i + 1)

\* return { type: 'not', expr }
parseNotWrap(r) == IF ~r.ok THEN r ELSE Parsed(Not(r.node), r.i)

parseNot(tokens, i) ==
    IF PeekIs(tokens, i, <<"~">>)
    THEN parseNotWrap(parseNot(tokens, i + 1))
    ELSE parsePrimary(tokens, i)

\* the while (peek() === '&') loop, entered with the node built so far
parseAndLoop(tokens, acc) ==
    IF ~acc.ok THEN acc
    ELSE IF PeekIs(tokens, acc.i, <<"&">>)
         THEN parseAndLoop(tokens, Combine("and", acc, parseNot(tokens, acc.i + 1)))
         ELSE acc

parseAnd(tokens, i) == parseAndLoop(tokens, parseNot(tokens, i))

\* the while (peek() === '|') loop
parseOrLoop(tokens, acc) ==
    IF ~acc.ok THEN acc
    ELSE IF PeekIs(tokens, acc.i, <<"|">>)
         THEN parseOrLoop(tokens, Combine("or", acc, parseAnd(tokens, acc.i + 1)))
         ELSE acc

parseOr(tokens, i) == parseOrLoop(tokens, parseAnd(tokens, i))

\* if (peek() === '->') { ... parseImplication() ... } return left
parseImplicationRest(tokens, l) ==
    IF ~l.ok THEN l
    ELSE IF PeekIs(tokens, l.i, <<"-", ">">>)
         THEN Combine("imp", l, parseImplication(tokens, l.i + 1))
         ELSE l

parseImplication(tokens, i) == parseImplicationRest(tokens, parseOr(tokens, i))

\* if (i < tokens.length) throw new Error('Unexpected token: ' + tokens[i])
parseEnd(tokens, root) ==
    IF ~root.ok THEN root
    ELSE IF root.i <= Len(tokens)
         THEN Thrown("Unexpected token")
         ELSE root

parseFromTokens(tokens) == parseEnd(tokens, parseImplication(tokens, 1))

parseFromString(str) == parseFromTokens(tokenize(str))

(* -------------------------- canonical printer ------------------------- *)

\* the three binary cases without their parentheses
RECURSIVE exprToStrNoParens(_)
exprToStrNoParens(e) ==
    CASE e.type = "var" -> e.name
      [] e.type = "not" ->
            IF e.expr.type = "var"
            THEN <<"~">> \o exprToStrNoParens(e.expr)
            ELSE <<"~", "(">> \o exprToStrNoParens(e.expr) \o <<")">>
      [] e.type = "and" ->
            exprToStrNoParens(e.left) \o <<" ", "&", " ">> \o exprToStrNoParens(e.right)
      [] e.type = "or" ->
            exprToStrNoParens(e.left) \o <<" ", "|", " ">> \o exprToStrNoParens(e.right)
      [] e.type = "imp" ->
            exprToStrNoParens(e.left) \o <<" ", "-", ">", " ">> \o exprToStrNoParens(e.right)

RECURSIVE exprToStr(_)
exprToStr(e) ==
    CASE e.type = "var" -> e.name
      [] e.type = "not" ->
            IF e.expr.type = "var"
            THEN <<"~">> \o exprToStr(e.expr)
            ELSE <<"~", "(">> \o exprToStr(e.expr) \o <<")">>
      [] e.type = "and" ->
            <<"(">> \o exprToStr(e.left) \o <<" ", "&", " ">> \o exprToStr(e.right) \o <<")">>
      [] e.type = "or" ->
            <<"(">> \o exprToStr(e.left) \o <<" ", "|", " ">> \o exprToStr(e.right) \o <<")">>
      [] e.type = "imp" ->
            <<"(">> \o exprToStr(e.left) \o <<" ", "-", ">", " ">> \o exprToStr(e.right) \o <<")">>

(* ------------------------------ evaluator ----------------------------- *)

\* assignment[e.name] of a name the object does not hold is undefined
Lookup(assignment, n) == IF n \in DOMAIN assignment THEN assignment[n] ELSE FALSE

RECURSIVE evalExpr(_, _)
evalExpr(e, assignment) ==
    CASE e.type = "var" -> Lookup(assignment, e.name)
      [] e.type = "not" -> ~evalExpr(e.expr, assignment)
      [] e.type = "and" -> evalExpr(e.left, assignment) /\ evalExpr(e.right, assignment)
      [] e.type = "or" -> evalExpr(e.left, assignment) \/ evalExpr(e.right, assignment)
      [] e.type = "imp" -> (~evalExpr(e.left, assignment)) \/ evalExpr(e.right, assignment)

(* ----------------------------- truth table ---------------------------- *)

RECURSIVE Contains(_, _)
Contains(seq, x) ==
    IF seq = <<>> THEN FALSE
    ELSE Head(seq) = x \/ Contains(Tail(seq), x)

RECURSIVE collectVars(_, _)
RECURSIVE collectAll(_, _)

\* collectVars(e) adding to the Set vars; acc is the Set in insertion order
collectVars(acc, e) ==
    CASE e.type = "var" -> IF Contains(acc, e.name) THEN acc ELSE Append(acc, e.name)
      [] e.type = "not" -> collectVars(acc, e.expr)
      [] e.type \in {"and", "or", "imp"} -> collectAll(acc, <<e.left, e.right>>)

\* collectVars of each tree of a list in turn, as premiseExprs.forEach(collectVars)
collectAll(acc, exprs) ==
    IF exprs = <<>> THEN acc
    ELSE collectAll(collectVars(acc, Head(exprs)), Tail(exprs))

RECURSIVE Pow2(_)
Pow2(n) == IF n = 0 THEN 1 ELSE 2 * Pow2(n - 1)

\* 1 << n on 32-bit integers: the count is taken mod 32, bit 31 is the sign
Shl1(n) == IF n % 32 = 31 THEN 0 - Pow2(31) ELSE Pow2(n % 32)

\* Boolean(mask & (1 << i))
Bit(mask, i) == (mask \div Pow2(i)) % 2 = 1

\* varList.forEach((v, i) => assignment[v] = Boolean(mask & (1 << i)))
AssignmentOf(varList, mask) ==
    [v \in {varList[j] : j \in 1..Len(varList)} |->
        Bit(mask, (CHOOSE j \in 1..Len(varList) : varList[j] = v) - 1)]

\* premiseExprs.every(p => evalExpr(p, assignment))
AllTrue(exprs, assignment) ==
    \A j \in 1..Len(exprs) : evalExpr(exprs[j], assignment)

\* one row of the table and what it does to valid and consistent
TruthRow(acc, assignment, premisesTrue, conclusionTrue) ==
    [valid |-> acc.valid /\ ~(premisesTrue /\ ~conclusionTrue),
     consistent |-> acc.consistent \/ premisesTrue,
     truthTable |-> Append(acc.truthTable,
         [assignment |-> assignment, premisesTrue |-> premisesTrue,
          conclusionTrue |-> conclusionTrue])]

\* the loop with its bound one short, so that the last row is lost
RECURSIVE truthLoopShort(_, _, _, _, _)
truthLoopShort(ps, c, vl, mask, acc) ==
    IF mask >= Shl1(Len(vl)) - 1 THEN acc
    ELSE truthLoopShort(ps, c, vl, mask + 1,
             TruthRow(acc, AssignmentOf(vl, mask),
                      AllTrue(ps, AssignmentOf(vl, mask)),
                      evalExpr(c, AssignmentOf(vl, mask))))

\* for (let mask = 0; mask < total; mask++) { ... }
RECURSIVE truthLoop(_, _, _, _, _)
truthLoop(ps, c, vl, mask, acc) ==
    IF mask >= Shl1(Len(vl)) THEN acc
    ELSE truthLoop(ps, c, vl, mask + 1,
             TruthRow(acc, AssignmentOf(vl, mask),
                      AllTrue(ps, AssignmentOf(vl, mask)),
                      evalExpr(c, AssignmentOf(vl, mask))))

\* the verdict with the test of 'valid' put first
VerdictValidFirst(isConsistent, isValid) ==
    IF isValid THEN "valid"
    ELSE IF ~isConsistent THEN "inconsistent" ELSE "invalid"

\* final truth-table based verdict (the text put in finalResultContainer)
Verdict(isConsistent, isValid) ==
    IF ~isConsistent THEN "inconsistent"
    ELSE IF isValid THEN "valid" ELSE "invalid"

(* ------------------------------- state -------------------------------- *)

VARIABLES
    premisesInput,      \* premisesInput.value
    conclusionInput,    \* conclusionInput.value
    pc,                 \* where the click handler solve() stands
    alertMsg,           \* the text of the alert() solve raised, "" if none
    premiseExprs,       \* solve: the parsed premises
    conclusionExpr,     \* solve: the parsed conclusion
    varList,            \* solve: [...vars]
    truthTable,         \* solve: the rows
    valid,              \* solve: let valid
    consistent,         \* solve: let consistent
    verdict,            \* which of the three texts finalResultContainer shows
    proofAttempt,       \* what attemptDeductionWithProof returned
    run,                \* attemptDeductionWithProof: 0 none, 1 run, 2 run2
    fcPremises,         \* forwardChain: premiseExprs
    goalExpr,           \* forwardChain: goalExpr
    extraAssumptions,   \* forwardChain: extraAssumptions
    map,                \* forwardChain: map, exprStr -> entry
    order,              \* forwardChain: order
    safety,             \* forwardChain: safety
    changed,            \* forwardChain: changed
    keys,               \* forwardChain: the snapshot Array.from(order)
    k,                  \* forwardChain: index of forEach / of s in keys
    ti,                 \* forwardChain: index of t in keys
    fcpc,               \* forwardChain: where the call stands
    goalFound,          \* forwardChain: the goalFound of the returned object
    rtTree,             \* round trip: the tree
    rtStr,              \* round trip: exprToStr(rtTree)
    rtTokens,           \* round trip: tokenize(rtStr)
    rtResult,           \* round trip: what the parse returned or threw
    rtpc                \* round trip: how far it went

solveVars == <<pc, alertMsg, premiseExprs, conclusionExpr, varList, truthTable,
               valid, consistent, verdict, proofAttempt, run>>
inputVars == <<premisesInput, conclusionInput>>
fcVars == <<fcPremises, goalExpr, extraAssumptions, map, order, safety, changed,
            keys, k, ti, fcpc, goalFound>>
rtVars == <<rtTree, rtStr, rtTokens, rtResult, rtpc>>
vars == <<inputVars, solveVars, fcVars, rtVars>>

(* ------------------------- forwardChain: addExpr ---------------------- *)

NoExpr == Var(<<>>)
EmptyMap == [s \in {} |-> 0]

GoalStr == exprToStr(goalExpr)

\* the text of a justification: the rule, the number of a premise, and the
\* canonical strings it names
Reason(rule, num, refs) == [rule |-> rule, num |-> num, refs |-> refs]

\* the closure state of forwardChain that addExpr and the rules work on;
\* thrown is set once addExpr has thrown { found: true }
Frame(m, o, c, th) == [map |-> m, order |-> o, changed |-> c, thrown |-> th]

\* addExpr without its test of map.has(s)
addExprNoHas(st, expr, reason, derivedFrom, countsAsChange) ==
    IF st.thrown THEN st
    ELSE LET s == exprToStr(expr)
             entry == [expr |-> expr, reason |-> reason, derivedFrom |-> derivedFrom,
                       stepOrder |-> Len(st.order) + 1]
         IN  Frame((s :> entry) @@ st.map,
                   Append(st.order, s),
                   st.changed \/ countsAsChange,
                   s = GoalStr)

\* addExpr(expr, reason, derivedFrom), and the caller's
\* "if (addExpr(...)) changed = true" when countsAsChange; a statement after
\* a throw is not executed
addExpr(st, expr, reason, derivedFrom, countsAsChange) ==
    IF st.thrown THEN st
    ELSE LET s == exprToStr(expr)
             entry == [expr |-> expr, reason |-> reason, derivedFrom |-> derivedFrom,
                       stepOrder |-> Len(st.order) + 1]
         IN  IF s \in DOMAIN st.map THEN st
             ELSE Frame(st.map @@ (s :> entry),
                        Append(st.order, s),
                        st.changed \/ countsAsChange,
                        s = GoalStr)

(* -------------------------- forwardChain: rules ----------------------- *)

Simplification(st, e, s) ==
    IF e.type = "and"
    THEN LET r == Reason("Simplification", 0, <<s>>)
         IN  addExpr(addExpr(st, e.left, r, <<s>>, TRUE), e.right, r, <<s>>, TRUE)
    ELSE st

\* Modus Ponens without its test that the antecedent is a fact
ModusPonensUnguarded(st, e, s) ==
    LET leftStr == exprToStr(e.left)
    IN  addExpr(st, e.right, Reason("Modus Ponens", 0, <<s, leftStr>>), <<s, leftStr>>, TRUE)

ModusPonens(st, e, s) ==
    LET leftStr == exprToStr(e.left)
    IN  IF ~st.thrown /\ leftStr \in DOMAIN st.map
        THEN addExpr(st, e.right, Reason("Modus Ponens", 0, <<s, leftStr>>), <<s, leftStr>>, TRUE)
        ELSE st

ModusTollens(st, e, s) ==
    LET negRightStr == exprToStr(Not(e.right))
    IN  IF ~st.thrown /\ negRightStr \in DOMAIN st.map
        THEN addExpr(st, Not(e.left), Reason("Modus Tollens", 0, <<s, negRightStr>>),
                     <<s, negRightStr>>, TRUE)
        ELSE st

\* JSON.stringify(e.right) === JSON.stringify(f.left): the two trees are equal
HypotheticalSyllogism(st, e, f, s, t) ==
    IF f.type = "imp" /\ e.right = f.left
    THEN addExpr(st, Imp(e.left, f.right), Reason("Hypothetical Syllogism", 0, <<s, t>>),
                 <<s, t>>, TRUE)
    ELSE st

DisjunctiveSyllogism(st, e, s) ==
    LET notA == exprToStr(Not(e.left))
        notB == exprToStr(Not(e.right))
        st1 == IF ~st.thrown /\ notA \in DOMAIN st.map
               THEN addExpr(st, e.right, Reason("Disjunctive Syllogism", 0, <<s, notA>>),
                            <<s, notA>>, TRUE)
               ELSE st
    IN  IF ~st1.thrown /\ notB \in DOMAIN st1.map
        THEN addExpr(st1, e.left, Reason("Disjunctive Syllogism", 0, <<s, notB>>),
                     <<s, notB>>, TRUE)
        ELSE st1

ConjunctionIntroduction(st, e, f) ==
    LET aStr == exprToStr(e)
        bStr == exprToStr(f)
    IN  IF /\ ~st.thrown
           /\ aStr # bStr /\ aStr \in DOMAIN st.map /\ bStr \in DOMAIN st.map
           /\ \/ aStr = exprToStr(goalExpr.left) /\ bStr = exprToStr(goalExpr.right)
              \/ bStr = exprToStr(goalExpr.left) /\ aStr = exprToStr(goalExpr.right)
        THEN addExpr(st, And(e, f), Reason("Conjunction Introduction", 0, <<aStr, bStr>>),
                     <<aStr, bStr>>, TRUE)
        ELSE st

\* the body of "for (const t of keys)" for one s and one t
InnerBody(st, s, t) ==
    IF s = t THEN st
    ELSE LET e == st.map[s].expr
             f == st.map[t].expr
             st1 == IF e.type = "imp"
                    THEN HypotheticalSyllogism(
                             ModusTollens(ModusPonens(st, e, s), e, s), e, f, s, t)
                    ELSE st
             st2 == IF e.type = "or" THEN DisjunctiveSyllogism(st1, e, s) ELSE st1
         IN  IF goalExpr.type = "and" THEN ConjunctionIntroduction(st2, e, f) ELSE st2

\* the pass begun without resetting changed and without counting it
PassBeginStuck(c, n) == [changed |-> c, safety |-> n]

\* changed = false; safety++;
PassBegin(c, n) == [changed |-> FALSE, safety |-> n + 1]

(* ----------------------- proof steps of a run ------------------------- *)

\* the lines of buildStepsHtmlFromMap: number, formula text, justification
RECURSIVE orderLines(_, _, _)
orderLines(m, o, idx) ==
    IF idx > Len(o) THEN <<>>
    ELSE <<[idx |-> idx, text |-> o[idx], reason |-> m[o[idx]].reason]>>
         \o orderLines(m, o, idx + 1)

buildStepsHtmlFromMap(m, o, title, isAssumptionRun, assumptionStr, derivedStr) ==
    [title |-> title,
     lines |-> IF isAssumptionRun
               THEN Append(orderLines(m, o, 1),
                        [idx |-> Len(o) + 1,
                         text |-> assumptionStr \o <<" ", "-", ">", " ">> \o derivedStr,
                         reason |-> Reason("->-Introduction (discharge assumption)", 0, <<>>)])
               ELSE orderLines(m, o, 1)]

NoHtml == [title |-> "", lines |-> <<>>]

(* ------------------------------- inputs ------------------------------- *)

\* what the user may type as one line of the premises box
PremiseLines ==
    { <<"P">>, <<"Q">>, <<"~", "P">>, <<"~", "Q">>,
      <<"P", " ", "-", ">", " ", "Q">>,
      <<"Q", " ", "-", ">", " ", "R">>,
      <<"P", " ", "&", " ", "Q">>,
      <<"P", " ", "|", " ", "Q">>,
      <<"(", "P">> }

\* what the user may type into the conclusion box
ConclusionTexts ==
    { <<"P">>, <<"~", "Q">>, <<"~", "P">>,
      <<"P", " ", "-", ">", " ", "P">>,
      <<"P", " ", "-", ">", " ", "R">>,
      <<"~", "Q", " ", "-", ">", " ", "P">>,
      <<"P", " ", "&", " ", "Q">>,
      <<"P", " ", "&", " ", "P">>,
      <<"(", "P">> }

RECURSIVE SeqsUpTo(_, _)
SeqsUpTo(S, n) ==
    IF n = 0 THEN {<<>>}
    ELSE LET shorter == SeqsUpTo(S, n - 1)
         IN  shorter \cup {Append(q, x) : q \in shorter, x \in S}

\* Array.prototype.join('\n')
RECURSIVE JoinLines(_)
JoinLines(lines) ==
    IF lines = <<>> THEN <<>>
    ELSE IF Len(lines) = 1 THEN lines[1]
         ELSE lines[1] \o <<"\n">> \o JoinLines(Tail(lines))

\* String.prototype.split('\n')
RECURSIVE SplitLines(_, _)
SplitLines(s, cur) ==
    IF s = <<>> THEN <<cur>>
    ELSE IF Head(s) = "\n"
         THEN <<cur>> \o SplitLines(Tail(s), <<>>)
         ELSE SplitLines(Tail(s), Append(cur, Head(s)))

RECURSIVE TrimEach(_)
TrimEach(lines) ==
    IF lines = <<>> THEN <<>> ELSE <<Trim(Head(lines))>> \o TrimEach(Tail(lines))

\* premisesInput.value.split('\n').map(s => s.trim()).filter(s => s.length > 0)
PremisesRaw(value) == FilterNonEmpty(TrimEach(SplitLines(value, <<>>)))

\* const example = { premises: `(P | Q) -> R\nP\n~R`, conclusion: `~Q` }
example ==
    [premises |-> <<"(", "P", " ", "|", " ", "Q", ")", " ", "-", ">", " ", "R", "\n",
                    "P", "\n", "~", "R">>,
     conclusion |-> <<"~", "Q">>]

\* premisesRaw.map(parseFromString): the trees, or the first Error thrown;
\* acc holds the trees of the lines already parsed, r the parse of the next
RECURSIVE parseEach(_, _)
parseEachNext(raws, acc, r) ==
    IF ~r.ok THEN [ok |-> FALSE, exprs |-> <<>>, err |-> r.err]
    ELSE parseEach(Tail(raws), Append(acc, r.node))

parseEach(raws, acc) ==
    IF raws = <<>> THEN [ok |-> TRUE, exprs |-> acc, err |-> ""]
    ELSE parseEachNext(raws, acc, parseFromString(Head(raws)))

(* -------------------------------- Init -------------------------------- *)

NoAttempt == [derived |-> FALSE, html |-> NoHtml]

SolveInit ==
    /\ pc = "idle"
    /\ alertMsg = ""
    /\ premiseExprs = <<>>
    /\ conclusionExpr = NoExpr
    /\ varList = <<>>
    /\ truthTable = <<>>
    /\ valid = TRUE
    /\ consistent = FALSE
    /\ verdict = ""
    /\ proofAttempt = NoAttempt
    /\ run = 0

FcInit ==
    /\ fcPremises = <<>>
    /\ goalExpr = NoExpr
    /\ extraAssumptions = <<>>
    /\ map = EmptyMap
    /\ order = <<>>
    /\ safety = 0
    /\ changed = FALSE
    /\ keys = <<>>
    /\ k = 0
    /\ ti = 0
    /\ fcpc = "none"
    /\ goalFound = FALSE

RtOff ==
    /\ rtTree = NoExpr
    /\ rtStr = <<>>
    /\ rtTokens = <<>>
    /\ rtResult = Thrown("")
    /\ rtpc = "off"

Init ==
    /\ premisesInput = <<>>
    /\ conclusionInput = <<>>
    /\ SolveInit
    /\ FcInit
    /\ RtOff

(* --------------------------- the three buttons ------------------------ *)

\* the user fills in the two empty boxes
TypeInput ==
    /\ pc = "idle"
    /\ premisesInput = <<>> /\ conclusionInput = <<>>
    /\ \E lines \in SeqsUpTo(PremiseLines, MaxPremises), c \in ConclusionTexts :
          /\ premisesInput' = JoinLines(lines)
          /\ conclusionInput' = c
    /\ UNCHANGED <<solveVars, fcVars, rtVars>>

\* exampleBtn click
ExampleClick ==
    /\ pc = "idle"
    /\ premisesInput' = example.premises
    /\ conclusionInput' = example.conclusion
    /\ UNCHANGED <<solveVars, fcVars, rtVars>>

\* clearBtn click; the locals of a finished solve() are gone with it
ClearClick ==
    /\ pc \in {"done", "uncaught"}
    /\ premisesInput' = <<>>
    /\ conclusionInput' = <<>>
    /\ pc' = "idle"
    /\ alertMsg' = ""
    /\ premiseExprs' = <<>>
    /\ conclusionExpr' = NoExpr
    /\ varList' = <<>>
    /\ truthTable' = <<>>
    /\ valid' = TRUE
    /\ consistent' = FALSE
    /\ verdict' = ""
    /\ proofAttempt' = NoAttempt
    /\ run' = 0
    /\ fcPremises' = <<>>
    /\ goalExpr' = NoExpr
    /\ extraAssumptions' = <<>>
    /\ map' = EmptyMap
    /\ order' = <<>>
    /\ safety' = 0
    /\ changed' = FALSE
    /\ keys' = <<>>
    /\ k' = 0
    /\ ti' = 0
    /\ fcpc' = "none"
    /\ goalFound' = FALSE
    /\ UNCHANGED rtVars

\* solve() from its start to the end of parsing: the alert it raises and
\* the trees it has got
SolveParsed(premisesRaw, conclusionRaw, ps, c) ==
    IF premisesRaw = <<>> \/ conclusionRaw = <<>>
    THEN [alert |-> "Please provide premises and a conclusion.",
          premiseExprs |-> <<>>, conclusionExpr |-> NoExpr]
    ELSE IF ~ps.ok
    THEN [alert |-> "Error parsing premises", premiseExprs |-> <<>>, conclusionExpr |-> NoExpr]
    ELSE IF ~c.ok
    THEN [alert |-> "Error parsing conclusion", premiseExprs |-> ps.exprs,
          conclusionExpr |-> NoExpr]
    ELSE [alert |-> "", premiseExprs |-> ps.exprs, conclusionExpr |-> c.node]

SolveParse(premisesValue, conclusionValue) ==
    SolveParsed(PremisesRaw(premisesValue), Trim(conclusionValue),
                parseEach(PremisesRaw(premisesValue), <<>>),
                parseFromString(Trim(conclusionValue)))

\* the truth table of solve(): variables, rows, valid and consistent
TruthTableOver(ps, c, vl) ==
    truthLoop(ps, c, vl, 0, [valid |-> TRUE, consistent |-> FALSE, truthTable |-> <<>>])

TruthTable(ps, c) == TruthTableOver(ps, c, collectVars(collectAll(<<>>, ps), c))

\* solveBtn click: solve() up to the end of parsing
SolveClick ==
    /\ pc = "idle"
    /\ alertMsg' = SolveParse(premisesInput, conclusionInput).alert
    /\ premiseExprs' = SolveParse(premisesInput, conclusionInput).premiseExprs
    /\ conclusionExpr' = SolveParse(premisesInput, conclusionInput).conclusionExpr
    /\ pc' = IF alertMsg' = "" THEN "table" ELSE "done"
    /\ verdict' = ""
    /\ UNCHANGED <<varList, truthTable, valid, consistent, proofAttempt, run>>
    /\ UNCHANGED <<inputVars, fcVars, rtVars>>

\* solve(): collect variables, truth table, verdict
TruthTableStep ==
    /\ pc = "table"
    /\ varList' = collectVars(collectAll(<<>>, premiseExprs), conclusionExpr)
    /\ truthTable' = TruthTable(premiseExprs, conclusionExpr).truthTable
    /\ valid' = TruthTable(premiseExprs, conclusionExpr).valid
    /\ consistent' = TruthTable(premiseExprs, conclusionExpr).consistent
    /\ verdict' = Verdict(consistent', valid')
    /\ pc' = "attempt"
    /\ UNCHANGED <<alertMsg, premiseExprs, conclusionExpr, proofAttempt, run>>
    /\ UNCHANGED <<inputVars, fcVars, rtVars>>

(* ------------------------- attemptDeductionWithProof ------------------ *)

\* the entry into forwardChain(ps, goal, assumptions): fresh map and order
EnterForwardChain(ps, goal, assumptions) ==
    /\ fcPremises' = ps
    /\ goalExpr' = goal
    /\ extraAssumptions' = assumptions
    /\ map' = EmptyMap
    /\ order' = <<>>
    /\ safety' = 0
    /\ changed' = FALSE
    /\ keys' = <<>>
    /\ k' = 1
    /\ ti' = 0
    /\ fcpc' = IF ps # <<>> THEN "premises"
               ELSE IF assumptions # <<>> THEN "assumptions" ELSE "while"
    /\ goalFound' = FALSE

\* const run = forwardChain(premises, goalExpr)
AttemptStart ==
    /\ pc = "attempt"
    /\ pc' = "forwardChain"
    /\ run' = 1
    /\ EnterForwardChain(premiseExprs, conclusionExpr, <<>>)
    /\ UNCHANGED <<alertMsg, premiseExprs, conclusionExpr, varList, truthTable,
                   valid, consistent, verdict, proofAttempt>>
    /\ UNCHANGED <<inputVars, rtVars>>

\* after run: direct derivation, or run2 = forwardChain(premises, B, [A]), or
\* { derived: false, html: null }
AfterRun ==
    /\ pc = "forwardChain" /\ run = 1 /\ fcpc = "returned"
    /\ IF goalFound
       THEN /\ proofAttempt' =
                  [derived |-> TRUE,
                   html |-> buildStepsHtmlFromMap(map, order, "Proof (direct derivation)",
                                                  FALSE, <<>>, <<>>)]
            /\ pc' = "render"
            /\ UNCHANGED <<run, fcVars>>
       ELSE IF conclusionExpr.type = "imp"
       THEN /\ run' = 2
            /\ EnterForwardChain(premiseExprs, conclusionExpr.right, <<conclusionExpr.left>>)
            /\ UNCHANGED <<pc, proofAttempt>>
       ELSE /\ proofAttempt' = [derived |-> FALSE, html |-> NoHtml]
            /\ pc' = "render"
            /\ UNCHANGED <<run, fcVars>>
    /\ UNCHANGED <<alertMsg, premiseExprs, conclusionExpr, varList, truthTable,
                   valid, consistent, verdict>>
    /\ UNCHANGED <<inputVars, rtVars>>

\* after run2: the conditional proof, or { derived: false, html: null }
AfterRun2 ==
    /\ pc = "forwardChain" /\ run = 2 /\ fcpc = "returned"
    /\ proofAttempt' =
          IF goalFound
          THEN [derived |-> TRUE,
                html |-> buildStepsHtmlFromMap(map, order, "Proof (->-intro)", TRUE,
                             exprToStr(conclusionExpr.left), exprToStr(conclusionExpr.right))]
          ELSE [derived |-> FALSE, html |-> NoHtml]
    /\ pc' = "render"
    /\ UNCHANGED <<alertMsg, premiseExprs, conclusionExpr, varList, truthTable,
                   valid, consistent, verdict, run>>
    /\ UNCHANGED <<inputVars, fcVars, rtVars>>

\* solve(): the proof steps or the message appended to stepsContainer
SolveRender ==
    /\ pc = "render"
    /\ pc' = "done"
    /\ UNCHANGED <<alertMsg, premiseExprs, conclusionExpr, varList, truthTable,
                   valid, consistent, verdict, proofAttempt, run>>
    /\ UNCHANGED <<inputVars, fcVars, rtVars>>

(* ----------------------------- forwardChain --------------------------- *)

\* what a step of forwardChain leaves of the rest of the program: an
\* exception that leaves forwardChain is caught nowhere, so solve() ends
FcFrame(raised) ==
    /\ pc' = IF raised THEN "uncaught" ELSE pc
    /\ UNCHANGED <<alertMsg, premiseExprs, conclusionExpr, varList, truthTable,
                   valid, consistent, verdict, proofAttempt, run>>
    /\ UNCHANGED <<inputVars, rtVars>>
    /\ UNCHANGED <<fcPremises, goalExpr, extraAssumptions>>

\* premiseExprs.forEach((ex, idx) => addExpr(ex, `Premise ${idx + 1}`)), one ex
AddPremise ==
    /\ pc = "forwardChain" /\ fcpc = "premises"
    /\ LET st == addExpr(Frame(map, order, changed, FALSE), fcPremises[k],
                         Reason("Premise", k, <<>>), <<>>, FALSE)
       IN  /\ map' = st.map
           /\ order' = st.order
           /\ fcpc' = IF st.thrown THEN "raised"
                      ELSE IF k < Len(fcPremises) THEN "premises"
                      ELSE IF extraAssumptions # <<>> THEN "assumptions"
                      ELSE "while"
           /\ k' = IF ~st.thrown /\ k < Len(fcPremises) THEN k + 1 ELSE 1
           /\ changed' = (~st.thrown /\ k = Len(fcPremises) /\ extraAssumptions = <<>>)
           /\ FcFrame(st.thrown)
    /\ UNCHANGED <<safety, keys, ti, goalFound>>

\* extraAssumptions.forEach((ex) => addExpr(ex, `Assumption`)), one ex
AddAssumption ==
    /\ pc = "forwardChain" /\ fcpc = "assumptions"
    /\ LET st == addExpr(Frame(map, order, changed, FALSE), extraAssumptions[k],
                         Reason("Assumption", 0, <<>>), <<>>, FALSE)
       IN  /\ map' = st.map
           /\ order' = st.order
           /\ fcpc' = IF st.thrown THEN "raised"
                      ELSE IF k < Len(extraAssumptions) THEN "assumptions"
                      ELSE "while"
           /\ k' = IF ~st.thrown /\ k < Len(extraAssumptions) THEN k + 1 ELSE 1
           /\ changed' = (~st.thrown /\ k = Len(extraAssumptions))
           /\ FcFrame(st.thrown)
    /\ UNCHANGED <<safety, keys, ti, goalFound>>

\* while (changed && safety < 5000)
LoopCond(c, n) == c /\ n < SafetyBound

\* the head of a pass: changed = false; safety++; const keys = Array.from(order)
BeginPass ==
    /\ pc = "forwardChain" /\ fcpc = "while"
    /\ LoopCond(changed, safety)
    /\ changed' = PassBegin(changed, safety).changed
    /\ safety' = PassBegin(changed, safety).safety
    /\ keys' = order
    /\ k' = 1
    /\ fcpc' = IF order = <<>> THEN "while" ELSE "for_s"
    /\ FcFrame(FALSE)
    /\ UNCHANGED <<map, order, ti, goalFound>>

\* the loop is left: return { map, order, goalFound: map.has(goalStr) }
EndLoop ==
    /\ pc = "forwardChain" /\ fcpc = "while"
    /\ ~LoopCond(changed, safety)
    /\ goalFound' = (GoalStr \in DOMAIN map)
    /\ fcpc' = "returned"
    /\ FcFrame(FALSE)
    /\ UNCHANGED <<map, order, safety, changed, keys, k, ti>>

\* for (const s of keys): Simplification of s = keys[k]; a throw here is
\* caught: return { map, order, goalFound: true }
OuterStep ==
    /\ pc = "forwardChain" /\ fcpc = "for_s"
    /\ LET s == keys[k]
           st == Simplification(Frame(map, order, changed, FALSE), map[s].expr, s)
       IN  /\ map' = st.map
           /\ order' = st.order
           /\ changed' = st.changed
           /\ goalFound' = st.thrown
           /\ fcpc' = IF st.thrown THEN "returned" ELSE "for_t"
           /\ ti' = 1
    /\ FcFrame(FALSE)
    /\ UNCHANGED <<safety, keys, k>>

\* for (const t of keys): the rules for s = keys[k] and t = keys[ti]
InnerStep ==
    /\ pc = "forwardChain" /\ fcpc = "for_t"
    /\ LET st == InnerBody(Frame(map, order, changed, FALSE), keys[k], keys[ti])
       IN  /\ map' = st.map
           /\ order' = st.order
           /\ changed' = st.changed
           /\ goalFound' = st.thrown
           /\ fcpc' = IF st.thrown THEN "returned"
                      ELSE IF ti < Len(keys) THEN "for_t"
                      ELSE IF k < Len(keys) THEN "for_s"
                      ELSE "while"
           /\ ti' = IF ~st.thrown /\ ti < Len(keys) THEN ti + 1 ELSE ti
           /\ k' = IF ~st.thrown /\ ti = Len(keys) /\ k < Len(keys) THEN k + 1 ELSE k
    /\ FcFrame(FALSE)
    /\ UNCHANGED <<safety, keys>>

(* ------------------- printer/parser round trip ------------------------ *)

\* variable tokens: non-empty, no whitespace, no ( ) ~ & |, no "->"
Names == { <<"P">>, <<">">>, <<"P", "-">> }

RECURSIVE TreesWithOps(_)
TreesWithOps(n) ==
    IF n = 0 THEN {Var(x) : x \in Names}
    ELSE {Not(x) : x \in TreesWithOps(n - 1)}
         \cup UNION { {And(l, r) : l \in TreesWithOps(i), r \in TreesWithOps(n - 1 - i)}
                      \cup {Or(l, r) : l \in TreesWithOps(i), r \in TreesWithOps(n - 1 - i)}
                      \cup {Imp(l, r) : l \in TreesWithOps(i), r \in TreesWithOps(n - 1 - i)}
                      : i \in 0..(n - 1) }

\* the trees of at most n operators
TreesUpTo(n) == UNION {TreesWithOps(i) : i \in 0..n}

RtInit ==
    /\ premisesInput = <<>>
    /\ conclusionInput = <<>>
    /\ SolveInit
    /\ FcInit
    /\ rtTree \in TreesUpTo(MaxOps)
    /\ rtStr = <<>>
    /\ rtTokens = <<>>
    /\ rtResult = Thrown("")
    /\ rtpc = "tree"

RtPrint ==
    /\ rtpc = "tree"
    /\ rtStr' = exprToStr(rtTree)
    /\ rtpc' = "printed"
    /\ UNCHANGED <<rtTree, rtTokens, rtResult, inputVars, solveVars, fcVars>>

RtTokenize ==
    /\ rtpc = "printed"
    /\ rtTokens' = tokenize(rtStr)
    /\ rtpc' = "tokens"
    /\ UNCHANGED <<rtTree, rtStr, rtResult, inputVars, solveVars, fcVars>>

RtParse ==
    /\ rtpc = "tokens"
    /\ rtResult' = parseFromTokens(rtTokens)
    /\ rtpc' = "parsed"
    /\ UNCHANGED <<rtTree, rtStr, rtTokens, inputVars, solveVars, fcVars>>

(* ---------------------------- specifications -------------------------- *)

\* the steps of solve() outside forwardChain
SolveStep ==
    \/ SolveClick
    \/ TruthTableStep
    \/ AttemptStart
    \/ AfterRun
    \/ AfterRun2
    \/ SolveRender

\* the steps of one call of forwardChain
FcStep ==
    \/ AddPremise
    \/ AddAssumption
    \/ BeginPass
    \/ EndLoop
    \/ OuterStep
    \/ InnerStep

Next ==
    \/ TypeInput
    \/ ExampleClick
    \/ ClearClick
    \/ SolveStep
    \/ FcStep

Spec == Init /\ [][Next]_vars

\* forwardChain is synchronous code: once called it runs on until it
\* returns or throws
FairSpec == Spec /\ WF_vars(FcStep)

RtNext ==
    \/ RtPrint
    \/ RtTokenize
    \/ RtParse

RtSpec == RtInit /\ [][RtNext]_vars

(* ------------------------- semantics of a formula --------------------- *)

\* the variable names that occur in a tree
RECURSIVE VarsOf(_)
VarsOf(e) ==
    CASE e.type = "var" -> {e.name}
      [] e.type = "not" -> VarsOf(e.expr)
      [] OTHER -> VarsOf(e.left) \cup VarsOf(e.right)

\* all assignments of the variables of the argument solve() works on
Assignments ==
    [UNION {VarsOf(premiseExprs[j]) : j \in 1..Len(premiseExprs)} \cup VarsOf(conclusionExpr)
        -> BOOLEAN]

\* the assignments that make every premise true
Models == {a \in Assignments : AllTrue(premiseExprs, a)}

\* solve() has parsed its input and built the table
TableDone ==
    /\ alertMsg = ""
    /\ pc \in {"attempt", "forwardChain", "render", "done", "uncaught"}
FcRunning == fcpc \in {"premises", "assumptions", "while", "for_s", "for_t"}
FcEnded == fcpc \in {"returned", "raised"}
AttemptEnded == pc \in {"render", "done", "uncaught"}

(* -------------------------------- claims ------------------------------ *)

\* C1: forwardChain never raises: every call returns normally, also when the
\* goal's canonical string is that of a premise or of an assumption.
C1_ForwardChainNeverRaises == fcpc # "raised"

\* C2: for the goal P -> P, attemptDeductionWithProof returns derived = true
\* through the conditional-proof branch: run2 reports goalFound = true and the
\* steps are run2's ordered facts followed by one discharge step.
C2_SelfImplicationByConditionalProof ==
    (AttemptEnded /\ conclusionExpr.type = "imp"
        /\ conclusionExpr.left = conclusionExpr.right)
    => /\ pc # "uncaught"
       /\ proofAttempt.derived
       /\ run = 2
       /\ goalFound
       /\ Len(proofAttempt.html.lines) = Len(order) + 1
       /\ SubSeq(proofAttempt.html.lines, 1, Len(order)) = orderLines(map, order, 1)

\* C3: every invocation of forwardChain ends, and when it has ended the goal
\* was added, or the last pass added nothing, or 5000 passes were executed.
C3_ForwardChainTerminates ==
    /\ FcRunning ~> FcEnded
    /\ [](FcEnded => (GoalStr \in DOMAIN map \/ ~changed \/ safety = SafetyBound))

\* a call that ended at a fixed point after more than one pass
C3_Witness == fcpc = "returned" /\ ~goalFound /\ ~changed /\ safety >= 3

\* C4: the verdict is 'inconsistent' iff no assignment satisfies all premises;
\* otherwise 'valid' iff every assignment that satisfies all premises
\* satisfies the conclusion; otherwise 'invalid'.
C4_VerdictThreeWay ==
    TableDone =>
        /\ verdict \in {"inconsistent", "valid", "invalid"}
        /\ (verdict = "inconsistent") <=> (Models = {})
        /\ (verdict = "valid") <=>
              (Models # {} /\ \A a \in Models : evalExpr(conclusionExpr, a))
        /\ (verdict = "invalid") <=>
              (\E a \in Models : ~evalExpr(conclusionExpr, a))

\* premises P and ~P with a conclusion that has another variable
C4_Witness ==
    /\ TableDone
    /\ premiseExprs = <<Var(<<"P">>), Not(Var(<<"P">>))>>
    /\ conclusionExpr = Not(Var(<<"Q">>))
    /\ verdict = "inconsistent"

ExampleSolved ==
    /\ TableDone
    /\ premisesInput = example.premises
    /\ conclusionInput = example.conclusion

\* C5 as stated: for the built-in example, premises (P | Q) -> R, P, ~R and
\* conclusion ~Q, the truth-table stage reports the verdict 'valid'.
C5_ExampleValid == ExampleSolved => verdict = "valid"

\* C5 amended: for the built-in example the truth-table stage reports the
\* verdict 'inconsistent'.
C5_ExampleInconsistent == ExampleSolved => verdict = "inconsistent"

\* the example has been parsed into its three premises and its table built
C5_Witness ==
    /\ ExampleSolved
    /\ Len(premiseExprs) = 3
    /\ Len(truthTable) = 8

\* C6: whenever the goal is And(L, R) and facts with the canonical strings of
\* L and of R are in the fact set (also when L equals R), forwardChain adds
\* the goal conjunction and returns goalFound = true.
C6_ConjunctionIntroductionComplete ==
    (/\ FcEnded
     /\ goalExpr.type = "and"
     /\ exprToStr(goalExpr.left) \in DOMAIN map
     /\ exprToStr(goalExpr.right) \in DOMAIN map)
    => (fcpc = "returned" /\ goalFound /\ GoalStr \in DOMAIN map)

\* C7: every fact added with a 'Conjunction Introduction' justification has
\* the goal's canonical string; no conjunction with swapped operands is added.
C7_ConjunctionInGoalOrder ==
    \A s \in DOMAIN map :
        map[s].reason.rule = "Conjunction Introduction" => s = GoalStr

\* C8: for every tree whose variable names are valid variable tokens,
\* parseFromString(exprToStr(t)) succeeds and its canonical rendering equals
\* exprToStr(t); the parse gives t back, so exprToStr is injective.
C8_RoundTrip ==
    rtpc = "parsed" =>
        /\ rtResult.ok
        /\ exprToStr(rtResult.node) = rtStr
        /\ rtResult.node = rtTree

\* a parsed tree whose shape only the parentheses of the rendering tell
C8_Witness ==
    /\ rtpc = "parsed"
    /\ rtTree.type = "imp"
    /\ rtTree.left.type = "imp"
    /\ rtTree.left.left.name = <<"P", "-">>

\* C9: order has no duplicate keys, its elements are the keys of map, each
\* entry's stepOrder is the position of its key in order, and no step of the
\* call changes or removes an entry once inserted.
C9_Deduplication ==
    /\ [](/\ \A i, j \in 1..Len(order) : order[i] = order[j] => i = j
          /\ {order[i] : i \in 1..Len(order)} = DOMAIN map
          /\ \A i \in 1..Len(order) : map[order[i]].stepOrder = i)
    /\ [][FcRunning => \A s \in DOMAIN map : s \in DOMAIN map' /\ map'[s] = map[s]]_vars

\* Simplification of a conjunction has produced a premise once more, and a
\* later premise has repeated an earlier one
C9_Witness ==
    /\ fcpc = "for_t"
    /\ map[keys[k]].expr.type = "and"
    /\ exprToStr(map[keys[k]].expr.left) \in DOMAIN map
    /\ map[exprToStr(map[keys[k]].expr.left)].reason.rule = "Premise"
    /\ map[exprToStr(map[keys[k]].expr.right)].reason.rule = "Simplification"

\* C10: every fact is true under every assignment that makes all premises and
\* all assumptions of the call true; and when attemptDeductionWithProof
\* returns derived = true on consistent premises the verdict is 'valid'.
C10_Soundness ==
    /\ \A s \in DOMAIN map : \A a \in Assignments :
          (AllTrue(fcPremises, a) /\ AllTrue(extraAssumptions, a))
              => evalExpr(map[s].expr, a)
    /\ (pc \in {"render", "done"} /\ proofAttempt.derived /\ Models # {})
          => verdict = "valid"

\* a conditional proof found on consistent premises
C10_Witness ==
    /\ pc = "done"
    /\ proofAttempt.derived
    /\ run = 2
    /\ Models # {}
    /\ Len(order) >= 3

====
